---- MODULE Spec2Model ----
(***************************************************************************)
(* Homomorphic encryption notebook (cryptography/homomorphic-encryption):  *)
(* the modular-arithmetic helpers egcd / modinv, the multiplicative        *)
(* ElGamal scheme and textbook RSA, each with its encrypted                *)
(* multiplication.  Every function of the notebook is an operator computed *)
(* the way the notebook computes it; every call made by a caller is an     *)
(* action whose inputs (arguments, randint draws) are chosen with \E.      *)
(***************************************************************************)
EXTENDS Integers, Sequences, FiniteSets, TLC

VARIABLES
    \* --- a call of egcd or modinv
    u_op,       \* "none" | "egcd" | "modinv": the helper that was called
    u_a, u_b,   \* its two arguments
    u_egcd,     \* the triple returned by egcd(u_a, u_b)
    u_inv,      \* the outcome of modinv(u_a, u_b)
    \* --- an ElGamal session
    eg_pc,      \* "start" | "keyed" | "decrypted"
    eg_pk,      \* PublicKey(p, a, b)
    eg_sk,      \* SecretKey(d)
    eg_n,       \* the number of ciphertexts encrypt has returned
    eg_cts,     \* the ciphertexts at hand: returned by encrypt or by mult
    eg_ms,      \* per ciphertext at hand, the unreduced product of the plaintexts it combines
    eg_dec,     \* the integer returned by decrypt
    \* --- an RSA session
    rsa_pc,     \* "start" | "search" | "failed" | "keyed" | "roundtrip" | "combined" | "decrypted"
    rsa_p, rsa_q, \* the arguments of keygen
    kg_n, kg_phi, kg_e, \* keygen's locals n, phi, e
    rsa_pk,     \* PublicKey(e, n)
    rsa_sk,     \* SecretKey(d, n)
    rsa_ms,     \* per ciphertext: <<m>> when it is encrypt(m, pk), <<>> when supplied by the caller
    rsa_cts,    \* the ciphertexts at hand, in order
    rsa_res,    \* the ciphertext returned by mult
    rsa_dec     \* the integer returned by decrypt

uvars   == <<u_op, u_a, u_b, u_egcd, u_inv>>
egvars  == <<eg_pc, eg_pk, eg_sk, eg_n, eg_ms, eg_cts, eg_dec>>
rsavars == <<rsa_pc, rsa_p, rsa_q, kg_n, kg_phi, kg_e, rsa_pk, rsa_sk,
             rsa_ms, rsa_cts, rsa_res, rsa_dec>>
vars    == <<uvars, egvars, rsavars>>

-----------------------------------------------------------------------------
(* Bounds of the model *)

\* egcd / modinv are called with arguments in 0..MaxArg (and the documented pairs)
MaxArg == 12
\* ElGamal moduli: the primes in 5..MaxP
MaxP == 7
\* at most MaxN ciphertexts are combined by repeated mult
MaxN == 2
\* RSA primes: the primes in 2..MaxPrime (and the documented pair 61, 53)
MaxPrime == 7
\* plaintexts of the documented modulus 3233 are drawn from 0..MaxMsg (and 42, 6, 5)
MaxMsg == 3
\* ciphertexts supplied to RSA mult by the caller are drawn from 0..MaxCt
MaxCt == 8

(* Program constants *)

\* encrypt: k = randint(0, 100)
KMax == 100
\* RSA keygen: e = 2
EStart == 2

-----------------------------------------------------------------------------
(* Python helpers *)

Max(a, b) == IF a >= b THEN a ELSE b

\* random.randint(lo, hi): any integer of lo..hi, both ends included
randint(lo, hi) == lo .. hi

\* math.gcd(a, b) for a, b >= 0: the greatest common divisor, gcd(0, 0) = 0
gcd(a, b) ==
    IF a = 0 /\ b = 0 THEN 0
    ELSE LET cd == {c \in 1 .. Max(a, b) : a % c = 0 /\ b % c = 0}
         IN  CHOOSE g \in cd : \A c \in cd : c <= g

\* (x ** n) % m on Python's unbounded integers, n >= 0, m >= 1 (0 ** 0 is 1).
\* Square-and-multiply with every product reduced, which yields the same
\* value and keeps the intermediate products below m * m.
RECURSIVE PowMod(_, _, _)
PowMod(x, n, m) ==
    IF n = 0 THEN 1 % m
    ELSE LET h == PowMod(x, n \div 2, m)
             s == (h * h) % m
         IN  IF n % 2 = 1 THEN (s * (x % m)) % m ELSE s

IsPrime(n) == n >= 2 /\ \A c \in 2 .. (n - 1) : n % c # 0

-----------------------------------------------------------------------------
(* Modular arithmetic utilities *)

\* (mutation of egcd: the two coefficients of the recursive call are not swapped)
RECURSIVE egcdNoSwap(_, _)
egcdNoSwap(a, b) ==
    IF a = 0 THEN <<b, 0, 1>>
    ELSE LET r == egcdNoSwap(b % a, a)
         IN  <<r[1], r[2] - (b \div a) * r[3], r[3]>>

\* def egcd(a, b): returns the tuple (g, x, y)
RECURSIVE egcd(_, _)
egcd(a, b) ==
    IF a = 0 THEN <<b, 0, 1>>
    ELSE LET r == egcd(b % a, a)     \* g, y, x = egcd(b % a, a)
             g == r[1]
             y == r[2]
             x == r[3]
         IN  <<g, x - (b \div a) * y, y>>

\* The outcome of a call: the exception it ends in ("none" when it returns)
\* and the value it returns (<<v>>, or <<>> when it raises).
Returns(v) == [exc |-> "none", ret |-> <<v>>]
Raises(e)  == [exc |-> e, ret |-> <<>>]
NoInverse  == "Exception: modular inverse does not exist"

\* (mutation of modinv: the final reduction "% m" is dropped)
modinvNoReduce(a, m) ==
    LET r == egcd(a, m)
    IN  IF r[1] # 1 THEN Raises(NoInverse)
        ELSE IF m = 0 THEN Raises("ZeroDivisionError")
        ELSE Returns(r[2])

\* (mutation of modinv: the test "g != 1" is dropped)
modinvNoCheck(a, m) ==
    LET r == egcd(a, m)
    IN  IF m = 0 THEN Raises("ZeroDivisionError")
        ELSE Returns(r[2] % m)

\* def modinv(a, m)
modinv(a, m) ==
    LET r == egcd(a, m)
        g == r[1]
        x == r[2]
    IN  IF g # 1 THEN Raises(NoInverse)
        ELSE IF m = 0 THEN Raises("ZeroDivisionError")   \* x % 0
        ELSE Returns(x % m)

\* The argument pairs the helpers are called with: every pair of 0..MaxArg and
\* the two pairs of the notebook's assertions.
DocModinvArgs == <<17, 3120>>
DocEgcdArgs   == <<1071, 462>>
UtilArgs == ((0 .. MaxArg) \X (0 .. MaxArg)) \cup {DocModinvArgs, DocEgcdArgs}

NoTriple  == <<0, 0, 0>>
NoOutcome == Raises("not called")

InitUtil ==
    /\ u_op = "none"
    /\ u_a = 0
    /\ u_b = 0
    /\ u_egcd = NoTriple
    /\ u_inv = NoOutcome

CallEgcd ==
    \E ab \in UtilArgs :
        /\ u_op = "none"
        /\ u_op' = "egcd"
        /\ u_a' = ab[1]
        /\ u_b' = ab[2]
        /\ u_egcd' = egcd(ab[1], ab[2])
        /\ UNCHANGED <<u_inv, egvars, rsavars>>

CallModinv ==
    \E ab \in UtilArgs :
        /\ u_op = "none"
        /\ u_op' = "modinv"
        /\ u_a' = ab[1]
        /\ u_b' = ab[2]
        /\ u_inv' = modinv(ab[1], ab[2])
        /\ UNCHANGED <<u_egcd, egvars, rsavars>>

-----------------------------------------------------------------------------
(* ElGamal *)

\* class PublicKey(p, a, b), class SecretKey(d), class Ciphertext(r, t)
EGPublicKey(p, a, b) == [p |-> p, a |-> a, b |-> b]
EGSecretKey(d)       == [d |-> d]
EGCiphertext(r, t)   == [r |-> r, t |-> t]

\* def keygen(p), with a and d the two values drawn by randint
eg_keygen(p, a, d) ==
    LET b == PowMod(a, d, p)                        \* (a ** d) % p
    IN  [pk |-> EGPublicKey(p, a, b), sk |-> EGSecretKey(d)]

\* the draws of keygen(p): a = randint(1, p - 1), d = randint(2, p - 2)
eg_keygen_a(p) == randint(1, p - 1)
eg_keygen_d(p) == randint(2, p - 2)

\* def encrypt(message, pk), with k the value drawn by randint(0, 100)
eg_encrypt(message, pk, k) ==
    LET r == PowMod(pk.a, k, pk.p)                  \* (pk.a ** k) % pk.p
        t == (PowMod(pk.b, k, pk.p) * message) % pk.p   \* ((pk.b ** k) * message) % pk.p
    IN  EGCiphertext(r, t)

\* (mutation of decrypt: the exponent p - 1 instead of p - 2)
eg_decryptWrongExponent(c, pk, sk) ==
    (PowMod(PowMod(c.r, sk.d, pk.p), pk.p - 1, pk.p) * c.t) % pk.p

\* def decrypt(c, pk, sk): ((c.r ** sk.d) ** (pk.p - 2) * c.t) % pk.p
eg_decrypt(c, pk, sk) ==
    (PowMod(PowMod(c.r, sk.d, pk.p), pk.p - 2, pk.p) * c.t) % pk.p

\* (mutation of mult: the masking value of the second operand is dropped)
eg_multDropsR(a, b) == EGCiphertext(a.r, a.t * b.t)

\* def mult(a, b): the unreduced products
eg_mult(a, b) ==
    LET r == a.r * b.r
        t == a.t * b.t
    IN  EGCiphertext(r, t)

EGPrimes == {p \in 5 .. MaxP : IsPrime(p)}

InitEG ==
    /\ eg_pc = "start"
    /\ eg_pk = EGPublicKey(0, 0, 0)
    /\ eg_sk = EGSecretKey(0)
    /\ eg_n = 0
    /\ eg_ms = <<>>
    /\ eg_cts = <<>>
    /\ eg_dec = 0

\* pk, sk = keygen(p)
EGKeygen ==
    \E p \in EGPrimes :
      \E a \in eg_keygen_a(p), d \in eg_keygen_d(p) :
        /\ eg_pc = "start"
        /\ eg_pk' = eg_keygen(p, a, d).pk
        /\ eg_sk' = eg_keygen(p, a, d).sk
        /\ eg_pc' = "keyed"
        /\ UNCHANGED <<eg_n, eg_ms, eg_cts, eg_dec, uvars, rsavars>>

\* enc = encrypt(m, pk) for a plaintext m of [0, p)
EGEncrypt ==
    \E m \in 0 .. (eg_pk.p - 1), k \in randint(0, KMax) :
        /\ eg_pc = "keyed"
        /\ Len(eg_cts) < 2
        /\ eg_n < MaxN
        /\ eg_n' = eg_n + 1
        /\ eg_ms' = Append(eg_ms, m)
        /\ eg_cts' = Append(eg_cts, eg_encrypt(m, eg_pk, k))
        /\ UNCHANGED <<eg_pc, eg_pk, eg_sk, eg_dec, uvars, rsavars>>

\* result = mult(enc_a, enc_b): the two ciphertexts at hand are combined into
\* one, which stands for the product of what they stand for
EGMult ==
    /\ eg_pc = "keyed"
    /\ Len(eg_cts) = 2
    /\ eg_cts' = <<eg_mult(eg_cts[1], eg_cts[2])>>
    /\ eg_ms' = <<eg_ms[1] * eg_ms[2]>>
    /\ UNCHANGED <<eg_pc, eg_pk, eg_sk, eg_n, eg_dec, uvars, rsavars>>

\* decrypted = decrypt(c, pk, sk) of the one ciphertext at hand: the
\* ciphertext of encrypt (eg_n = 1) or the result of mult (eg_n >= 2)
EGDecrypt ==
    /\ eg_pc = "keyed"
    /\ Len(eg_cts) = 1
    /\ eg_dec' = eg_decrypt(eg_cts[1], eg_pk, eg_sk)
    /\ eg_pc' = "decrypted"
    /\ UNCHANGED <<eg_pk, eg_sk, eg_n, eg_ms, eg_cts, uvars, rsavars>>

-----------------------------------------------------------------------------
(* RSA *)

\* class PublicKey(e, n), class SecretKey(d, n), class Ciphertext(m)
RSAPublicKey(e, n) == [e |-> e, n |-> n]
RSASecretKey(d, n) == [d |-> d, n |-> n]
RSACiphertext(m)   == [m |-> m]

\* def encrypt(message, pk): Ciphertext(message ** pk.e % pk.n)
rsa_encrypt(message, pk) == RSACiphertext(PowMod(message, pk.e, pk.n))

\* (mutation of decrypt: a product instead of a power)
rsa_decryptTimes(c, sk) == (c.m * sk.d) % sk.n

\* def decrypt(c, sk): c.m ** sk.d % sk.n
rsa_decrypt(c, sk) == PowMod(c.m, sk.d, sk.n)

\* (mutation of mult: a sum instead of a product)
rsa_multAdds(a, b) == RSACiphertext(a.m + b.m)

\* def mult(a, b): Ciphertext(m=(a.m * b.m)), unreduced
rsa_mult(a, b) == RSACiphertext(a.m * b.m)

\* The prime pairs keygen is called with: every pair of primes of 2..MaxPrime
\* and the pair of the notebook's assertions.
RSAPrimes   == {p \in 2 .. MaxPrime : IsPrime(p)}
DocPrimes   == <<61, 53>>
DocMessages == {42, 6, 5}
RSAPrimePairs == (RSAPrimes \X RSAPrimes) \cup {DocPrimes}
\* The plaintexts of [0, n): all of them for the small moduli
RSAMessages(n) ==
    IF n <= MaxPrime * MaxPrime THEN 0 .. (n - 1)
    ELSE {m \in 0 .. (n - 1) : m <= MaxMsg \/ m \in DocMessages}

InitRSA ==
    /\ rsa_pc = "start"
    /\ rsa_p = 0
    /\ rsa_q = 0
    /\ kg_n = 0
    /\ kg_phi = 0
    /\ kg_e = 0
    /\ rsa_pk = RSAPublicKey(0, 0)
    /\ rsa_sk = RSASecretKey(0, 0)
    /\ rsa_ms = <<>>
    /\ rsa_cts = <<>>
    /\ rsa_res = RSACiphertext(0)
    /\ rsa_dec = 0

\* (mutation of keygen's entry: the search starts one above EStart)
RSAKeygenBeginLate ==
    \E pq \in RSAPrimePairs :
        /\ rsa_pc = "start"
        /\ rsa_p' = pq[1]
        /\ rsa_q' = pq[2]
        /\ kg_n' = pq[1] * pq[2]
        /\ kg_phi' = (pq[1] - 1) * (pq[2] - 1)
        /\ kg_e' = EStart + 1
        /\ rsa_pc' = "search"
        /\ UNCHANGED <<rsa_pk, rsa_sk, rsa_ms, rsa_cts, rsa_res, rsa_dec, uvars, egvars>>

\* keygen(p, q), up to the loop: n = p * q; phi = (p - 1) * (q - 1); e = 2
RSAKeygenBegin ==
    \E pq \in RSAPrimePairs :
        /\ rsa_pc = "start"
        /\ rsa_p' = pq[1]
        /\ rsa_q' = pq[2]
        /\ kg_n' = pq[1] * pq[2]
        /\ kg_phi' = (pq[1] - 1) * (pq[2] - 1)
        /\ kg_e' = EStart
        /\ rsa_pc' = "search"
        /\ UNCHANGED <<rsa_pk, rsa_sk, rsa_ms, rsa_cts, rsa_res, rsa_dec, uvars, egvars>>

\* (mutation of the loop body: e is not incremented)
RSAKeygenScanStuck ==
    /\ rsa_pc = "search"
    /\ gcd(kg_phi, kg_e) # 1
    /\ UNCHANGED vars

\* one iteration of: while gcd(phi, e) != 1: e += 1
RSAKeygenScan ==
    /\ rsa_pc = "search"
    /\ gcd(kg_phi, kg_e) # 1
    /\ kg_e' = kg_e + 1
    /\ UNCHANGED <<rsa_pc, rsa_p, rsa_q, kg_n, kg_phi, rsa_pk, rsa_sk,
                   rsa_ms, rsa_cts, rsa_res, rsa_dec, uvars, egvars>>

\* the loop exit: d = modinv(e, phi); pk = PublicKey(e, n); sk = SecretKey(d, n);
\* an exception of modinv leaves keygen without a key pair
RSAKeygenFinish ==
    /\ rsa_pc = "search"
    /\ gcd(kg_phi, kg_e) = 1
    /\ LET d == modinv(kg_e, kg_phi)
       IN  IF d.exc = "none"
           THEN /\ rsa_pk' = RSAPublicKey(kg_e, kg_n)
                /\ rsa_sk' = RSASecretKey(d.ret[1], kg_n)
                /\ rsa_pc' = "keyed"
           ELSE /\ rsa_pc' = "failed"
                /\ UNCHANGED <<rsa_pk, rsa_sk>>
    /\ UNCHANGED <<rsa_p, rsa_q, kg_n, kg_phi, kg_e,
                   rsa_ms, rsa_cts, rsa_res, rsa_dec, uvars, egvars>>

\* enc = encrypt(m, pk) for a plaintext m of [0, n)
RSAEncrypt ==
    \E m \in RSAMessages(rsa_pk.n) :
        /\ rsa_pc = "keyed"
        /\ Len(rsa_cts) < 2
        /\ rsa_ms' = Append(rsa_ms, <<m>>)
        /\ rsa_cts' = Append(rsa_cts, rsa_encrypt(m, rsa_pk))
        /\ UNCHANGED <<rsa_pc, rsa_p, rsa_q, kg_n, kg_phi, kg_e, rsa_pk, rsa_sk,
                       rsa_res, rsa_dec, uvars, egvars>>

\* the caller supplies a ciphertext of its own: Ciphertext(c)
RSASupply ==
    \E c \in 0 .. MaxCt :
        /\ rsa_pc = "keyed"
        /\ Len(rsa_cts) < 2
        /\ rsa_ms' = Append(rsa_ms, <<>>)
        /\ rsa_cts' = Append(rsa_cts, RSACiphertext(c))
        /\ UNCHANGED <<rsa_pc, rsa_p, rsa_q, kg_n, kg_phi, kg_e, rsa_pk, rsa_sk,
                       rsa_res, rsa_dec, uvars, egvars>>

\* decrypted = decrypt(ciphertext, sk) of the last ciphertext at hand
RSADecryptLast ==
    /\ rsa_pc = "keyed"
    /\ Len(rsa_cts) >= 1
    /\ rsa_dec' = rsa_decrypt(rsa_cts[Len(rsa_cts)], rsa_sk)
    /\ rsa_pc' = "roundtrip"
    /\ UNCHANGED <<rsa_p, rsa_q, kg_n, kg_phi, kg_e, rsa_pk, rsa_sk,
                   rsa_ms, rsa_cts, rsa_res, uvars, egvars>>

\* result = mult(enc_a, enc_b)
RSAMult ==
    /\ rsa_pc = "keyed"
    /\ Len(rsa_cts) = 2
    /\ rsa_res' = rsa_mult(rsa_cts[1], rsa_cts[2])
    /\ rsa_pc' = "combined"
    /\ UNCHANGED <<rsa_p, rsa_q, kg_n, kg_phi, kg_e, rsa_pk, rsa_sk,
                   rsa_ms, rsa_cts, rsa_dec, uvars, egvars>>

\* decrypted = decrypt(result, sk)
RSADecryptResult ==
    /\ rsa_pc = "combined"
    /\ rsa_dec' = rsa_decrypt(rsa_res, rsa_sk)
    /\ rsa_pc' = "decrypted"
    /\ UNCHANGED <<rsa_p, rsa_q, kg_n, kg_phi, kg_e, rsa_pk, rsa_sk,
                   rsa_ms, rsa_cts, rsa_res, uvars, egvars>>

-----------------------------------------------------------------------------
(* Specifications: one per component; the components share no state *)

Init == InitUtil /\ InitEG /\ InitRSA

NextUtil == CallEgcd \/ CallModinv
SpecUtil == Init /\ [][NextUtil]_vars

NextEG == EGKeygen \/ EGEncrypt \/ EGMult \/ EGDecrypt
SpecEG == Init /\ [][NextEG]_vars

NextRSA ==
    \/ RSAKeygenBegin
    \/ RSAKeygenScan
    \/ RSAKeygenFinish
    \/ RSAEncrypt
    \/ RSASupply
    \/ RSADecryptLast
    \/ RSAMult
    \/ RSADecryptResult
SpecRSA == Init /\ [][NextRSA]_vars

\* keygen is straight-line Python: once called it runs its loop and its exit
FairSpecRSA ==
    SpecRSA /\ WF_vars(RSAKeygenScan) /\ WF_vars(RSAKeygenFinish)

-----------------------------------------------------------------------------
(* Properties *)

Last(s) == s[Len(s)]

C2_RoundTrip ==
    (eg_pc = "decrypted" /\ eg_n = 1) => eg_dec = eg_ms[1]

\* C2 happens: a masked ciphertext (t differs from the plaintext) decrypts
\* to its plaintext
C2_Witness ==
    /\ eg_pc = "decrypted"
    /\ eg_n = 1
    /\ eg_ms = <<4>>
    /\ eg_cts[1].r # 1
    /\ eg_cts[1].t # 4
    /\ eg_dec = 4

\* C9: ElGamal key generation ranges. Every key pair (PublicKey(p, a, b),
\* SecretKey(d)) keygen(p) can return has 1 <= a <= p-2, 2 <= d <= p-2 and
\* b == a^d mod p.
C9_KeyRanges ==
    eg_pc # "start" =>
        /\ 1 <= eg_pk.a /\ eg_pk.a <= eg_pk.p - 2
        /\ 2 <= eg_sk.d /\ eg_sk.d <= eg_pk.p - 2
        /\ eg_pk.b = PowMod(eg_pk.a, eg_sk.d, eg_pk.p)

RSAHasKey == rsa_pc \in {"keyed", "roundtrip", "combined", "decrypted"}

\* C3 as stated: RSA round-trip for every pair of primes p, q.
\* decrypt(encrypt(m, pk), sk) == m for every plaintext m of [0, p*q).
C3_RoundTripAllPrimes ==
    (rsa_pc = "roundtrip" /\ Last(rsa_ms) # <<>>) =>
        rsa_dec = Last(rsa_ms)[1]

\* C3 amended: RSA round-trip for every pair of distinct primes p, q.
\* decrypt(encrypt(m, pk), sk) == m for every plaintext m of [0, p*q).
C3_RoundTripDistinctPrimes ==
    (rsa_pc = "roundtrip" /\ Last(rsa_ms) # <<>> /\ rsa_p # rsa_q) =>
        rsa_dec = Last(rsa_ms)[1]

\* C3 happens: the documented case p = 61, q = 53, m = 42
C3_Witness ==
    /\ rsa_pc = "roundtrip"
    /\ rsa_p = 61 /\ rsa_q = 53
    /\ Last(rsa_ms) = <<42>>
    /\ Last(rsa_cts).m # 42
    /\ rsa_dec = 42

\* C4: RSA homomorphism. For every secret key sk = (d, n) keygen returns and
\* all ciphertexts c1, c2, decrypt(mult(c1, c2), sk) ==
\* (decrypt(c1, sk) * decrypt(c2, sk)) mod n, mult being the unreduced product.
C4_Homomorphism ==
    rsa_pc = "decrypted" =>
        /\ rsa_res.m = rsa_cts[1].m * rsa_cts[2].m
        /\ rsa_dec = (rsa_decrypt(rsa_cts[1], rsa_sk)
                        * rsa_decrypt(rsa_cts[2], rsa_sk)) % rsa_sk.n

\* C4 happens: the documented case, encrypt(6) and encrypt(5) under
\* keygen(61, 53), whose unreduced product exceeds n and decrypts to 30
C4_Witness ==
    /\ rsa_pc = "decrypted"
    /\ rsa_sk = RSASecretKey(1783, 3233)
    /\ rsa_ms = << <<6>>, <<5>> >>
    /\ rsa_res.m > rsa_sk.n
    /\ rsa_dec = 30

\* C5: modular inverse correctness. For a >= 0 and m > 1 with gcd(a, m) = 1,
\* modinv(a, m) returns the unique x with 0 <= x < m and (a * x) mod m == 1,
\* also when the Bezout coefficient computed by egcd is negative.
C5_ModinvCorrect ==
    (u_op = "modinv" /\ u_b > 1 /\ gcd(u_a, u_b) = 1) =>
        /\ u_inv.exc = "none"
        /\ Len(u_inv.ret) = 1
        /\ LET x == u_inv.ret[1]
           IN  /\ 0 <= x /\ x < u_b
               /\ (u_a * x) % u_b = 1
               /\ \A z \in 0 .. (u_b - 1) : (u_a * z) % u_b = 1 => z = x

\* C5 happens: modinv(17, 3120) == 2753, where egcd's coefficient is negative
C5_Witness ==
    /\ u_op = "modinv"
    /\ <<u_a, u_b>> = DocModinvArgs
    /\ egcd(u_a, u_b)[2] < 0
    /\ u_inv = Returns(2753)

\* C6: extended gcd correctness. For all a, b >= 0, a = 0 included,
\* egcd(a, b) returns (g, x, y) with g == gcd(a, b) and a*x + b*y == g.
C6_EgcdCorrect ==
    u_op = "egcd" =>
        /\ u_egcd[1] = gcd(u_a, u_b)
        /\ u_a * u_egcd[2] + u_b * u_egcd[3] = u_egcd[1]

\* C6 happens: egcd(1071, 462) == (21, -3, 7)
C6_Witness ==
    /\ u_op = "egcd"
    /\ <<u_a, u_b>> = DocEgcdArgs
    /\ u_egcd = <<21, -3, 7>>

\* C7: modular inverse failure. For a >= 0 and m >= 1, modinv(a, m) ends in
\* the no-modular-inverse-exists error, returning no value, exactly when
\* gcd(a, m) != 1; modinv has no other error outcome.
C7_ModinvFailure ==
    (u_op = "modinv" /\ u_b >= 1) =>
        /\ u_inv.exc \in {"none", NoInverse}
        /\ u_inv.exc = NoInverse <=> gcd(u_a, u_b) # 1
        /\ u_inv.exc = NoInverse => u_inv.ret = <<>>
        /\ u_inv.exc = "none" => Len(u_inv.ret) = 1

\* C7 happens: modinv(6, 9) raises, gcd(6, 9) being 3
C7_Witness ==
    /\ u_op = "modinv"
    /\ u_a = 6 /\ u_b = 9
    /\ u_inv = Raises(NoInverse)

\* What C8 says of the key pair but for the congruence of d
C8_KeyShape ==
    /\ rsa_pk = RSAPublicKey(kg_e, rsa_p * rsa_q)
    /\ rsa_sk.n = rsa_p * rsa_q
    /\ kg_phi = (rsa_p - 1) * (rsa_q - 1)
    /\ rsa_pk.e >= 2
    /\ gcd(rsa_pk.e, kg_phi) = 1
    /\ \A f \in 2 .. (rsa_pk.e - 1) : gcd(f, kg_phi) # 1
    /\ 0 <= rsa_sk.d /\ rsa_sk.d < kg_phi

C10_KeygenCompletes ==
    /\ [](rsa_pc # "failed")
    /\ (rsa_pc = "search") ~> (rsa_pc = "keyed")

\* C10 happens: a key pair returned after the search incremented e
C10_Witness ==
    /\ rsa_pc = "keyed"
    /\ kg_phi = (rsa_p - 1) * (rsa_q - 1)
    /\ rsa_pk.e > EStart + 1

====
